---------------------------- MODULE Spec2Model ----------------------------
(***************************************************************************)
(* The flood fill of translucify.js (floodFill, lines 77-155) as a state   *)
(* machine: one step per evaluation of a loop condition of the source.     *)
(*                                                                         *)
(* The pixel buffer is imageData.data: bytes indexed from 0, four per      *)
(* pixel, row-major.  The tolerance is kept in hundredths (0.05 is 5), and *)
(* the six bounds are kept multiplied by 100, so that                      *)
(*     r >= rMin   in the source   is   r * 100 >= rMin   here.            *)
(* On the colours and tolerances used below no bound falls on a channel    *)
(* value except where the product is exact in binary floating point        *)
(* (tolerance 0 and tolerance 1), so the comparisons agree with the        *)
(* source's floating point ones.                                           *)
(*                                                                         *)
(* The second part follows translucifyAll (lines 189-210) and the load     *)
(* events of the images it is given: each handler of the source is one     *)
(* step, and so is each thing the browser does to an image.                *)
(***************************************************************************)
EXTENDS Integers, Sequences, FiniteSets, TLC

\* ---------------------------------------------------------------- bounds
MaxW == 3
MaxH == 3
MaxCells == 6
\* How far past width * height the stack may grow before a run is cut off.
MaxExtra == 2
\* The largest side of the uniform and checkerboard images.
MaxScen == 4

\* ---------------------------------------------------------------- inputs
Gray == <<200, 200, 200, 255>>
Pale == <<205, 205, 205, 255>>
Blue == <<0, 0, 255, 255>>
Black == <<0, 0, 0, 255>>
Palette == {Gray, Pale, Black}

DEFAULT_TOLERANCE_VALUE == 5
Tolerances == {0, DEFAULT_TOLERANCE_VALUE, 100}

VARIABLES
    width, height,       \* context.canvas.width, context.canvas.height
    data,                \* imageData.data
    tolerance,           \* the tolerance argument, in hundredths
    rMin, rMax, gMin, gMax, bMin, bMax,   \* the bounds, times 100
    pixelStack, x, y, pixelPos, reachLeft, reachRight,
    pc,                  \* "loop" (line 105), "up" (110), "down" (117), "done"
    orig,                \* the buffer as it was when floodFill was called
    seed,                \* the x, y arguments of the call
    zeroed,              \* pixels written by lines 118-121 in this call
    reads,               \* indices handed to matchTolerance in this call
    run,                 \* 1 for the first call on the buffer, 2 for a second
    first,               \* what the first call left: its buffer and zeroed set
    pushes,              \* coordinates pushed in this call, the seed included
    row,                 \* what the last pass of lines 118-150 found and did
    page                 \* the document, its images and _toleranceValue

vars == <<width, height, data, tolerance, rMin, rMax, gMin, gMax, bMin, bMax,
          pixelStack, x, y, pixelPos, reachLeft, reachRight, pc,
          orig, seed, zeroed, reads, run, first, pushes, row, page>>

\* ------------------------------------------------------------ the buffer
Pixels(w, h) == 0 .. (w * h - 1)

\* The bytes of an image given as one colour per pixel.
Flatten(img, w, h) == [i \in 0 .. (w * h * 4 - 1) |-> img[i \div 4][(i % 4) + 1]]

InBuffer(d, i) == i \in DOMAIN d

PixelIndex(w, px, py) == (py * w + px) * 4

\* ------------------------------------------------------- matchTolerance
\* A slip: only the upper bounds are compared.
matchTolerance_UpperOnly(d, pixelIndex) ==
    /\ InBuffer(d, pixelIndex)
    /\ d[pixelIndex] * 100 <= rMax
    /\ d[pixelIndex + 1] * 100 <= gMax
    /\ d[pixelIndex + 2] * 100 <= bMax

\* A read outside the typed array gives undefined, and every comparison with
\* undefined is false.
matchTolerance(d, pixelIndex) ==
    /\ InBuffer(d, pixelIndex)
    /\ LET r == d[pixelIndex]
           g == d[pixelIndex + 1]
           b == d[pixelIndex + 2]
       IN  /\ r * 100 >= rMin /\ r * 100 <= rMax
           /\ g * 100 >= gMin /\ g * 100 <= gMax
           /\ b * 100 >= bMin /\ b * 100 <= bMax

\* --------------------------------------------------------------- entry
\* A slip: the lower bounds are channel * (tolerance - 1).
Enter_NegMin(d, w, sx, sy, t) ==
    LET p == PixelIndex(w, sx, sy)
    IN  [pixelStack |-> << <<sx, sy>> >>,
         pixelPos |-> p,
         rMax |-> d[p] * (100 + t),
         gMax |-> d[p + 1] * (100 + t),
         bMax |-> d[p + 2] * (100 + t),
         rMin |-> d[p] * (t - 100),
         gMin |-> d[p + 1] * (t - 100),
         bMin |-> d[p + 2] * (t - 100)]

\* A slip: a tolerance of 0 is taken as absent and replaced by the default.
Enter_FalsyTolerance(d, w, sx, sy, t) ==
    LET p == PixelIndex(w, sx, sy)
        tt == IF t = 0 THEN DEFAULT_TOLERANCE_VALUE ELSE t
    IN  [pixelStack |-> << <<sx, sy>> >>,
         pixelPos |-> p,
         rMax |-> d[p] * (100 + tt),
         gMax |-> d[p + 1] * (100 + tt),
         bMax |-> d[p + 2] * (100 + tt),
         rMin |-> d[p] * (100 - tt),
         gMin |-> d[p + 1] * (100 - tt),
         bMin |-> d[p + 2] * (100 - tt)]

\* Lines 78-90: the stack holds the seed, the bounds come from the seed's colour.
Enter(d, w, sx, sy, t) ==
    LET p == PixelIndex(w, sx, sy)
    IN  [pixelStack |-> << <<sx, sy>> >>,
         pixelPos |-> p,
         rMax |-> d[p] * (100 + t),
         gMax |-> d[p + 1] * (100 + t),
         bMax |-> d[p + 2] * (100 + t),
         rMin |-> d[p] * (100 - t),
         gMin |-> d[p + 1] * (100 - t),
         bMin |-> d[p + 2] * (100 - t)]

\* The flood fill is followed on its own: no document, no image.
NoPage == [images |-> <<>>]

NoFirst == [data |-> <<>>, zeroed |-> {}, tolerance |-> 0]

\* No pass of the downward loop's body has run since the last pop.
NoRow == [ran |-> FALSE]

InitCall(w, h, d, sx, sy, t) ==
    LET e == Enter(d, w, sx, sy, t)
    IN  /\ width = w /\ height = h
        /\ data = d /\ orig = d
        /\ tolerance = t
        /\ seed = <<sx, sy>>
        /\ x = sx /\ y = sy
        /\ pixelStack = e.pixelStack
        /\ pixelPos = e.pixelPos
        /\ rMax = e.rMax /\ gMax = e.gMax /\ bMax = e.bMax
        /\ rMin = e.rMin /\ gMin = e.gMin /\ bMin = e.bMin
        /\ reachLeft = FALSE /\ reachRight = FALSE
        /\ pc = "loop"
        /\ zeroed = {} /\ reads = {}
        /\ run = 1 /\ first = NoFirst
        /\ pushes = 1 /\ row = NoRow

Init ==
    \E w \in 1 .. MaxW, h \in 1 .. MaxH :
        /\ w * h <= MaxCells
        /\ \E img \in [Pixels(w, h) -> Palette], sx \in 0 .. (w - 1),
              sy \in 0 .. (h - 1), t \in Tolerances :
               /\ InitCall(w, h, Flatten(img, w, h), sx, sy, t)
               /\ page = NoPage

\* ------------------------------------------------------------ the loops
\* A run whose stack has outgrown the image by more than MaxExtra is followed
\* no further (DownRow's guard): such a run never empties its stack.
StackLimit == width * height + MaxExtra

\* Line 105-109: pop the next coordinate.
Pop ==
    /\ pc = "loop"
    /\ Len(pixelStack) > 0
    /\ LET newPos == pixelStack[Len(pixelStack)]
       IN  /\ x' = newPos[1]
           /\ y' = newPos[2]
           /\ pixelPos' = (newPos[2] * width + newPos[1]) * 4
    /\ pixelStack' = SubSeq(pixelStack, 1, Len(pixelStack) - 1)
    /\ row' = NoRow
    /\ pc' = "up"
    /\ UNCHANGED <<width, height, data, tolerance, rMin, rMax, gMin, gMax, bMin,
                   bMax, reachLeft, reachRight, orig, seed, zeroed, reads, run,
                   first, pushes, page>>

\* A slip: y-- > 0, so row 0 is never tested on the way up.
UpCond_Strict == y > 0 /\ matchTolerance(data, pixelPos)

\* Line 110: y-- >= 0 && matchTolerance(pixelPos)
UpCond == y >= 0 /\ matchTolerance(data, pixelPos)

\* Lines 110-116: one test of the upward loop; when it fails, step back down.
WalkUp ==
    /\ pc = "up"
    /\ reads' = IF y >= 0 THEN reads \cup {pixelPos} ELSE reads
    /\ IF UpCond
       THEN /\ y' = y - 1
            /\ pixelPos' = pixelPos - width * 4
            /\ UNCHANGED <<reachLeft, reachRight, pc>>
       ELSE /\ y' = (y - 1) + 1
            /\ pixelPos' = pixelPos + width * 4
            /\ reachLeft' = FALSE
            /\ reachRight' = FALSE
            /\ pc' = "down"
    /\ UNCHANGED <<width, height, data, tolerance, rMin, rMax, gMin, gMax, bMin,
                   bMax, pixelStack, x, orig, seed, zeroed, run, first, pushes,
                   row, page>>

\* A slip: y++ < height - 2, so the bottom row is never entered.
DownCond_Short == y < height - 2 /\ matchTolerance(data, pixelPos)

\* Line 117: y++ < height - 1 && matchTolerance(pixelPos)
DownCond == y < height - 1 /\ matchTolerance(data, pixelPos)

\* A slip: only the alpha channel is cleared, the colour is kept.
ZeroPixel_AlphaOnly(d, p) ==
    [i \in DOMAIN d |-> IF i = p + 3 THEN 0 ELSE d[i]]

\* Lines 118-121.
ZeroPixel(d, p) ==
    [i \in DOMAIN d |-> IF i \in p .. (p + 3) THEN 0 ELSE d[i]]

\* Lines 123-133, with y already incremented to yy.
LeftStep(d, st, rl, yy) ==
    IF x > 0
    THEN IF matchTolerance(d, pixelPos - 4)
         THEN [stack |-> IF ~rl THEN Append(st, <<x - 1, yy>>) ELSE st,
               reachLeft |-> TRUE,
               reads |-> {pixelPos - 4},
               match |-> TRUE, push |-> ~rl]
         ELSE [stack |-> st, reachLeft |-> FALSE, reads |-> {pixelPos - 4},
               match |-> FALSE, push |-> FALSE]
    ELSE [stack |-> st, reachLeft |-> rl, reads |-> {},
          match |-> FALSE, push |-> FALSE]

\* A slip of sign: the diagonal test looks one row down, not one row up.
RightStep_DiagonalBelow(d, st, rl, rr, yy) ==
    IF x < width - 1
    THEN IF matchTolerance(d, pixelPos + 4)
         THEN [stack |-> IF ~rr THEN Append(st, <<x + 1, yy>>) ELSE st,
               reachLeft |-> rl, reachRight |-> TRUE,
               reads |-> {pixelPos + 4},
               match |-> TRUE, push |-> ~rr, diag |-> FALSE]
         ELSE IF matchTolerance(d, pixelPos + 4 + (width * 4))
         THEN [stack |-> IF ~rl THEN Append(st, <<x + 1, yy + 1>>) ELSE st,
               reachLeft |-> TRUE, reachRight |-> rr,
               reads |-> {pixelPos + 4, pixelPos + 4 + (width * 4)},
               match |-> FALSE, push |-> FALSE, diag |-> ~rl]
         ELSE [stack |-> st, reachLeft |-> rl, reachRight |-> FALSE,
               reads |-> {pixelPos + 4, pixelPos + 4 + (width * 4)},
               match |-> FALSE, push |-> FALSE, diag |-> FALSE]
    ELSE [stack |-> st, reachLeft |-> rl, reachRight |-> rr, reads |-> {},
          match |-> FALSE, push |-> FALSE, diag |-> FALSE]

\* Lines 134-150, with y already incremented to yy.
RightStep(d, st, rl, rr, yy) ==
    IF x < width - 1
    THEN IF matchTolerance(d, pixelPos + 4)
         THEN [stack |-> IF ~rr THEN Append(st, <<x + 1, yy>>) ELSE st,
               reachLeft |-> rl, reachRight |-> TRUE,
               reads |-> {pixelPos + 4},
               match |-> TRUE, push |-> ~rr, diag |-> FALSE]
         ELSE IF matchTolerance(d, pixelPos + 4 - (width * 4))
         THEN [stack |-> IF ~rl THEN Append(st, <<x + 1, yy - 1>>) ELSE st,
               reachLeft |-> TRUE, reachRight |-> rr,
               reads |-> {pixelPos + 4, pixelPos + 4 - (width * 4)},
               match |-> FALSE, push |-> FALSE, diag |-> ~rl]
         ELSE [stack |-> st, reachLeft |-> rl, reachRight |-> FALSE,
               reads |-> {pixelPos + 4, pixelPos + 4 - (width * 4)},
               match |-> FALSE, push |-> FALSE, diag |-> FALSE]
    ELSE [stack |-> st, reachLeft |-> rl, reachRight |-> rr, reads |-> {},
          match |-> FALSE, push |-> FALSE, diag |-> FALSE]

\* The count of pushes stops at PushCap, past every bound stated of it.
PushCap == 2 * width * height + 2
CountPushes(n) == IF pushes + n > PushCap THEN PushCap ELSE pushes + n

\* Lines 117-152: one test of the downward loop and, when it holds, its body.
DownRow ==
    /\ pc = "down"
    /\ Len(pixelStack) <= StackLimit
    /\ y' = y + 1
    /\ IF DownCond
       THEN LET d1 == ZeroPixel(data, pixelPos)
                l == LeftStep(d1, pixelStack, reachLeft, y + 1)
                r == RightStep(d1, l.stack, l.reachLeft, reachRight, y + 1)
            IN  /\ data' = d1
                /\ zeroed' = zeroed \cup {pixelPos \div 4}
                /\ pixelStack' = r.stack
                /\ reachLeft' = r.reachLeft
                /\ reachRight' = r.reachRight
                /\ reads' = reads \cup {pixelPos} \cup l.reads \cup r.reads
                /\ pushes' = CountPushes(Len(r.stack) - Len(pixelStack))
                /\ row' = [ran |-> TRUE,
                           first |-> ~row.ran,
                           prevLeft |-> row.ran /\ row.left,
                           left |-> l.match, leftPush |-> l.push,
                           right |-> r.match, rightPush |-> r.push,
                           diagPush |-> r.diag]
                /\ pixelPos' = pixelPos + width * 4
                /\ pc' = "down"
       ELSE /\ reads' = IF y < height - 1 THEN reads \cup {pixelPos} ELSE reads
            /\ pc' = "loop"
            /\ UNCHANGED <<data, zeroed, pixelStack, reachLeft, reachRight,
                           pixelPos, pushes, row>>
    /\ UNCHANGED <<width, height, tolerance, rMin, rMax, gMin, gMax, bMin, bMax,
                   x, orig, seed, run, first, page>>

\* Lines 105 and 154: the stack is empty, the buffer is put back.
Return ==
    /\ pc = "loop"
    /\ Len(pixelStack) = 0
    /\ pc' = "done"
    /\ UNCHANGED <<width, height, data, tolerance, rMin, rMax, gMin, gMax, bMin,
                   bMax, pixelStack, x, y, pixelPos, reachLeft, reachRight,
                   orig, seed, zeroed, reads, run, first, pushes, row, page>>

Next == Pop \/ WalkUp \/ DownRow \/ Return

Spec == Init /\ [][Next]_vars

\* ------------------------------------------------- the reference region
\* What the fill is meant to reach, computed on the buffer as it was when
\* floodFill was called, from the seed's colour there and the tolerance.
PixelX(p) == p % width
PixelY(p) == p \div width
SeedPixel == seed[2] * width + seed[1]
AllPixels == Pixels(width, height)

\* channel * (1 - tolerance) <= c <= channel * (1 + tolerance), per channel.
OrigWithin(p) ==
    \A k \in 0 .. 2 :
        LET c == orig[p * 4 + k]
            s == orig[SeedPixel * 4 + k]
        IN  /\ c * 100 >= s * (100 - tolerance)
            /\ c * 100 <= s * (100 + tolerance)

Dist(a, b) == IF a >= b THEN a - b ELSE b - a

Adjacent4(p, q) ==
    Dist(PixelX(p), PixelX(q)) + Dist(PixelY(p), PixelY(q)) = 1

Adjacent8(p, q) ==
    /\ p # q
    /\ Dist(PixelX(p), PixelX(q)) <= 1
    /\ Dist(PixelY(p), PixelY(q)) <= 1

RECURSIVE Closure(_, _, _)
Closure(S, M, diag) ==
    LET N == S \cup {q \in M : \E p \in S :
                        IF diag THEN Adjacent8(p, q) ELSE Adjacent4(p, q)}
    IN  IF N = S THEN S ELSE Closure(N, M, diag)

Matching == {p \in AllPixels : OrigWithin(p)}
Region4 == Closure({SeedPixel}, Matching, FALSE)
Region8 == Closure({SeedPixel}, Matching, TRUE)

IsZero(d, p) == \A k \in 0 .. 3 : d[p * 4 + k] = 0
Same(d, e, p) == \A k \in 0 .. 3 : d[p * 4 + k] = e[p * 4 + k]
Changed == {p \in AllPixels : ~Same(data, orig, p)}

\* C1: when floodFill returns, every pixel 4-connected to the seed through
\* pixels whose original colour is within the bounds is (0,0,0,0).
C1_Completeness ==
    (pc = "done" /\ run = 1) => \A p \in Region4 : IsZero(data, p)

\* C2 as claimed: when floodFill returns, every pixel outside the 4-connected
\* within-tolerance region of the seed is unchanged.
C2_Exterior4Untouched ==
    (pc = "done" /\ run = 1) => \A p \in AllPixels \ Region4 : Same(data, orig, p)

\* C2 as amended: at every moment of the call, and so when it returns, every
\* pixel outside the within-tolerance region connected to the seed under
\* 4-adjacency extended by diagonal adjacency is unchanged.
C2_Exterior8Untouched ==
    run = 1 => \A p \in AllPixels \ Region8 : Same(data, orig, p)

\* The call has returned having zeroed a pixel that only a diagonal step
\* reaches, and has left a pixel outside the region alone.
C2_Witness ==
    /\ pc = "done" /\ run = 1
    /\ zeroed \ Region4 # {}
    /\ AllPixels \ Region8 # {}

\* ------------------------------------------------------------ fairness
\* The loops of lines 105-153 run to completion: a step that can be taken is
\* taken.  The initial states are the buffers of at most two pixels, on which
\* the stack never holds more than one coordinate, so StackLimit cuts no run.
InitPair == Init /\ width * height <= 2
FairSpec == InitPair /\ [][Next]_vars /\ WF_vars(Next)

\* C3: for every buffer, in-range seed and tolerance >= 0 the stack becomes
\* empty and floodFill returns.
C3_Terminates == <>(pc = "done")

\* C6: every pixel floodFill has changed or written had, in the buffer as it
\* was at the call, a colour within the bounds of the seed's colour there.
C6_OnlyMatchingWritten ==
    \A p \in Changed \cup zeroed : OrigWithin(p)

\* The call has returned having zeroed several pixels next to a pixel whose
\* colour is outside the bounds.
C6_Witness ==
    /\ pc = "done"
    /\ Cardinality(zeroed) >= 2
    /\ \E p \in AllPixels \ Matching : \E q \in zeroed : Adjacent4(p, q)

\* C7: when floodFill returns, the zeroed pixels include the seed, each is
\* (0,0,0,0), and each is linked to the seed by a chain of zeroed pixels whose
\* consecutive members are horizontal, vertical or diagonal neighbours.
C7_ConnectedContainment ==
    pc = "done" =>
        /\ SeedPixel \in zeroed
        /\ \A p \in zeroed : IsZero(data, p)
        /\ Closure({SeedPixel}, zeroed, TRUE) = zeroed

\* The call has returned and part of what it zeroed hangs on the seed by a
\* diagonal step only.
C7_Witness ==
    /\ pc = "done"
    /\ Closure({SeedPixel}, zeroed, FALSE) # zeroed

\* C10: every index read through matchTolerance and every pixel written lies
\* in the buffer, and every coordinate on the stack lies in the image.
C10_NoOutOfBounds ==
    /\ \A i \in reads : i >= 0 /\ i + 2 < width * height * 4
    /\ zeroed \subseteq AllPixels
    /\ \A k \in 1 .. Len(pixelStack) :
           /\ pixelStack[k][1] \in 0 .. (width - 1)
           /\ pixelStack[k][2] \in 0 .. (height - 1)

\* ------------------------------------------------------- a second call
\* floodFill called again on the same context: same seed, same tolerance,
\* the buffer as the first call put it back (getImageData, line 82).
FillAgain ==
    /\ pc = "done"
    /\ run = 1
    /\ LET e == Enter(data, width, seed[1], seed[2], tolerance)
       IN  /\ pixelStack' = e.pixelStack
           /\ pixelPos' = e.pixelPos
           /\ rMax' = e.rMax /\ gMax' = e.gMax /\ bMax' = e.bMax
           /\ rMin' = e.rMin /\ gMin' = e.gMin /\ bMin' = e.bMin
    /\ x' = seed[1] /\ y' = seed[2]
    /\ reachLeft' = FALSE /\ reachRight' = FALSE
    /\ orig' = data
    /\ first' = [data |-> data, zeroed |-> zeroed, tolerance |-> tolerance]
    /\ zeroed' = {} /\ reads' = {}
    /\ run' = 2
    /\ pc' = "loop"
    /\ pushes' = 1 /\ row' = NoRow
    /\ UNCHANGED <<width, height, data, tolerance, seed, page>>

\* floodFill called with a larger tolerance on a fresh canvas holding the same
\* image (applyFloodFill draws the image anew for every call, lines 164-166).
FillWider ==
    /\ pc = "done"
    /\ run = 1
    /\ \E t \in Tolerances :
        /\ t > tolerance
        /\ tolerance' = t
        /\ LET e == Enter(orig, width, seed[1], seed[2], t)
           IN  /\ pixelStack' = e.pixelStack
               /\ pixelPos' = e.pixelPos
               /\ rMax' = e.rMax /\ gMax' = e.gMax /\ bMax' = e.bMax
               /\ rMin' = e.rMin /\ gMin' = e.gMin /\ bMin' = e.bMin
    /\ x' = seed[1] /\ y' = seed[2]
    /\ reachLeft' = FALSE /\ reachRight' = FALSE
    /\ data' = orig
    /\ first' = [data |-> data, zeroed |-> zeroed, tolerance |-> tolerance]
    /\ zeroed' = {} /\ reads' = {}
    /\ run' = 2
    /\ pc' = "loop"
    /\ pushes' = 1 /\ row' = NoRow
    /\ UNCHANGED <<width, height, orig, seed, page>>

NextAgain == Pop \/ WalkUp \/ DownRow \/ Return \/ FillAgain
SpecAgain == Init /\ [][NextAgain]_vars

NextWider == Pop \/ WalkUp \/ DownRow \/ Return \/ FillWider
SpecWider == Init /\ [][NextWider]_vars

\* C4: with the same buffer and seed, what floodFill zeroes with a tolerance
\* is zeroed as well with any larger tolerance.
C4_MonotoneInTolerance ==
    (run = 2 /\ pc = "done" /\ first.tolerance < tolerance)
        => first.zeroed \subseteq zeroed

\* C5: a second floodFill with the same seed and tolerance on the buffer the
\* first one left changes no pixel outside the set the first one zeroed.
C5_SecondRunNeverExpands ==
    run = 2 => \A p \in AllPixels :
                  ~Same(data, first.data, p) => p \in first.zeroed

\* ------------------------------------------------------- the scenarios
Uniform(w, h) == [p \in Pixels(w, h) |-> Gray]
Checkerboard(w, h) ==
    [p \in Pixels(w, h) |-> IF ((p % w) + (p \div w)) % 2 = 0 THEN Gray ELSE Blue]

InitScenario ==
    \E w \in 1 .. MaxScen, h \in 1 .. MaxScen :
        \E img \in {Uniform(w, h), Checkerboard(w, h)},
           sx \in 0 .. (w - 1), sy \in 0 .. (h - 1) :
            /\ InitCall(w, h, Flatten(img, w, h), sx, sy,
                        DEFAULT_TOLERANCE_VALUE)
            /\ page = NoPage

SpecScenario == InitScenario /\ [][Next]_vars /\ WF_vars(Next)

IsUniform == orig = Flatten(Uniform(width, height), width, height)
IsCheckerboard == orig = Flatten(Checkerboard(width, height), width, height)

\* C8 as claimed: on the 4x4 checkerboard with gray at (0,0), seed (0,0),
\* tolerance 0.05, all 8 gray pixels end (0,0,0,0) and the 8 blue unchanged.
C8_CheckerboardAllGray ==
    (pc = "done" /\ IsCheckerboard /\ width = 4 /\ height = 4 /\ seed = <<0, 0>>)
        => \A p \in AllPixels :
               IF orig[p * 4] = 200 THEN IsZero(data, p) ELSE Same(data, orig, p)

\* C8 as amended: on a checkerboard with gray at (0,0), seed (0,0), tolerance
\* 0.05, floodFill zeroes the seed pixel alone: every other pixel, gray or
\* blue, is unchanged.
C8_CheckerboardSeedOnly ==
    (pc = "done" /\ IsCheckerboard /\ seed = <<0, 0>>)
        => /\ IsZero(data, 0)
           /\ \A p \in AllPixels \ {0} : Same(data, orig, p)

\* The call on the 4x4 checkerboard from (0,0) has returned.
C8_Witness ==
    /\ pc = "done" /\ IsCheckerboard /\ seed = <<0, 0>>
    /\ width = 4 /\ height = 4
    /\ zeroed = {0}

\* C9: on a buffer that is (200,200,200,255) throughout, with tolerance 0.05
\* and any seed, floodFill returns and every pixel is (0,0,0,0).
C9_UniformFilled ==
    IsUniform ~> (pc = "done" /\ \A p \in AllPixels : IsZero(data, p))

\* The call on the largest uniform buffer, seeded at its bottom right corner,
\* has returned with the bottom row and the last column zeroed.
C9_Witness ==
    /\ pc = "done" /\ IsUniform
    /\ width = MaxScen /\ height = MaxScen
    /\ seed = <<width - 1, height - 1>>
    /\ \A p \in AllPixels : IsZero(data, p)

\* C11: the number of coordinates pushed in a call, the seed included, and so
\* the size of the stack, never exceeds width * height.
C11_StackBound ==
    /\ pushes <= width * height
    /\ Len(pixelStack) <= width * height

\* The colour (0,0,0) that the fill writes lies outside the bounds computed
\* from the seed pixel's colour: the lower bound channel * (1 - tolerance) of
\* some channel is above 0, that is, the channel is positive and the
\* tolerance is below 1.
ZeroOutside ==
    /\ tolerance < 100
    /\ \E k \in 0 .. 2 : orig[SeedPixel * 4 + k] > 0

SameRGB(d, p, q) == \A k \in 0 .. 2 : d[p * 4 + k] = d[q * 4 + k]
SeedColoured == {p \in AllPixels : SameRGB(orig, p, SeedPixel)}

\* C12: with tolerance 0 only pixels whose original RGB equals the seed's
\* original RGB are written, and when the seed is the only pixel of its
\* colour, floodFill returns with the seed pixel zeroed and nothing else
\* changed.
C12_ExactAtZero ==
    tolerance = 0 =>
        /\ Changed \cup zeroed \subseteq SeedColoured
        /\ (pc = "done" /\ SeedColoured = {SeedPixel}) =>
               /\ Changed = {SeedPixel}
               /\ zeroed = {SeedPixel}
               /\ IsZero(data, SeedPixel)

\* The seed is alone in its colour, next to a pixel within 5% of it, and the
\* call at tolerance 0 has returned.
C12_Witness ==
    /\ pc = "done" /\ tolerance = 0
    /\ SeedColoured = {SeedPixel}
    /\ zeroed = {SeedPixel}
    /\ \E q \in AllPixels :
           /\ Adjacent4(SeedPixel, q)
           /\ \A k \in 0 .. 2 :
                  /\ orig[q * 4 + k] * 100 >= orig[SeedPixel * 4 + k] * 95
                  /\ orig[q * 4 + k] * 100 <= orig[SeedPixel * 4 + k] * 105

\* Square buffers of two colours, wide and tall enough for a column to have a
\* neighbour on each side and a row above the top of its run.
GridSide == 3
TwoTone == {Gray, Black}

InitGrid ==
    \E img \in [Pixels(GridSide, GridSide) -> TwoTone] :
        \E sx \in 0 .. GridSide - 1, sy \in 0 .. GridSide - 1 :
            /\ InitCall(GridSide, GridSide, Flatten(img, GridSide, GridSide),
                        sx, sy, DEFAULT_TOLERANCE_VALUE)
            /\ page = NoPage

SpecGrid == InitGrid /\ [][Next]_vars

\* C17: in a downward run at a column x > 0, a row whose left neighbour
\* matches pushes (x-1, y) exactly when it is the first row of the run or the
\* left neighbour of the row above did not match.
C17_FreshLeftPush ==
    (row.ran /\ row.left) => (row.leftPush <=> (row.first \/ ~row.prevLeft))

\* C18: after a row at a column x < width-1 whose right neighbour does not
\* match and in which no diagonal push was made, reachRight is false.
C18_ReachRightReset ==
    (row.ran /\ x < width - 1 /\ ~row.right /\ ~row.diagPush) => ~reachRight

\* The calls whose seed has a positive channel and whose tolerance is below 1,
\* each carried on while it can be: floodFill runs to its return.
InitBright == Init /\ ZeroOutside
SpecLive == InitBright /\ [][Next]_vars /\ WF_vars(Next)

\* C19: when (0,0,0) lies outside the bounds, a row that pushes zeroes a
\* pixel that matched and was not yet zeroed, the pushes of the call number at
\* most 1 + 2 * (number of originally matching pixels), and floodFill returns.
C19_ConditionalTermination ==
    /\ [](ZeroOutside => pushes <= 1 + 2 * Cardinality(Matching))
    /\ [][(ZeroOutside /\ pushes' > pushes) =>
              \E p \in Matching \ zeroed :
                  /\ zeroed' = zeroed \cup {p}
                  /\ ~IsZero(data, p)
                  /\ IsZero(data', p)]_vars
    /\ (ZeroOutside ~> pc = "done")

\* A call on a bright seed that pushed, zeroed several pixels and returned.
C19_Witness ==
    /\ ZeroOutside
    /\ pc = "done"
    /\ pushes >= 3
    /\ Cardinality(zeroed) >= 3

\* ------------------------------------------------------ the page pipeline
\* translucifyAll and the load events of the images it is given. Each handler
\* runs to completion; the browser's part (an image loads or fails, a load
\* event is delivered) is a step of its own. What floodFill does to a canvas
\* is followed by Spec: here a call of it is recorded with the tolerance it
\* was passed.
MaxImages == 2
MaxCalls == 2

Images == 1 .. MaxImages

\* typeof tolerance === 'undefined'
Undefined == -1

fillVars == <<width, height, data, tolerance, rMin, rMax, gMin, gMax, bMin,
              bMax, pixelStack, x, y, pixelPos, reachLeft, reachRight, pc,
              orig, seed, zeroed, reads, run, first, pushes, row>>

\* image.complete is true once the request has ended, in success or in
\* failure; the natural size is positive only for a decoded image; an <img>
\* has no readyState.
Complete(state) == state \in {"loaded", "broken"}
NaturalSize(state) == IF state = "loaded" THEN 2 ELSE 0

\* Lines 18-24.
isImageLoaded(state) ==
    IF state # "nosrc"
    THEN Complete(state) \/ FALSE \/ NaturalSize(state) > 0
    ELSE FALSE

\* A slip: the original is replaced without asking whether it has a parent.
applyFloodFill_NoGuard(p, c) ==
    LET i == p.copies[c].img
    IN  [p EXCEPT !.copies[c].used = Append(@, p.toleranceValue),
                  !.images[i].canvases = @ + 1,
                  !.images[i].parent = FALSE]

\* Lines 163-171: floodFill(0, 0, ctx, _toleranceValue), then the canvas
\* takes the original's place when the original has a parent.
applyFloodFill(p, c) ==
    LET i == p.copies[c].img
    IN  [p EXCEPT !.copies[c].used = Append(@, p.toleranceValue),
                  !.images[i].canvases =
                      IF p.images[i].parent THEN @ + 1 ELSE @,
                  !.images[i].parent = FALSE]

\* What assigning imageCORS.src does at once: "miss" starts a request,
\* "hit" finds the image available and queues its load event, "silent" finds
\* it available and delivers no load event.
CacheOutcomes == {"miss", "hit", "silent"}

\* Lines 57-69. asked is the tolerance of the translucifyAll call that led
\* here.
modifyImagePixels(p, i, asked, cached) ==
    LET copy == [img |-> i,
                 asked |-> asked,
                 state |-> IF cached = "miss" THEN "loading" ELSE "loaded",
                 event |-> cached = "hit",
                 used |-> <<>>]
        q == [p EXCEPT !.copies = Append(@, copy)]
    IN  IF isImageLoaded(copy.state)
        THEN applyFloodFill(q, Len(q.copies))
        ELSE q

\* Lines 173-181.
translucifyOneFloodFill(p, i, asked, cached) ==
    IF isImageLoaded(p.images[i].state)
    THEN modifyImagePixels(p, i, asked, cached)
    ELSE [p EXCEPT !.images[i].onload = <<asked>>]

\* Lines 200 and 205: forEach(translucifyOneFloodFill).
RECURSIVE forEach(_, _, _, _)
forEach(p, list, asked, cache) ==
    IF list = <<>>
    THEN p
    ELSE forEach(translucifyOneFloodFill(p, Head(list), asked,
                                         cache[Head(list)]),
                 Tail(list), asked, cache)

\* The images of a set in document order.
RECURSIVE Ordered(_)
Ordered(S) ==
    IF S = {}
    THEN <<>>
    ELSE LET m == CHOOSE a \in S : \A b \in S : a <= b
         IN  <<m>> \o Ordered(S \ {m})

Kinds == {"HTMLImageElement", "NodeList", "jQuery", "other"}

\* The arguments a call may be given: one image, a NodeList or a jQuery
\* object of any images, or something that is none of these.
Queries ==
    [kind : {"HTMLImageElement"}, list : {<<i>> : i \in Images}]
        \cup [kind : {"NodeList", "jQuery"},
              list : {Ordered(S) : S \in SUBSET Images}]
        \cup [kind : {"other"}, list : {<<>>}]

\* The module as loaded (line 12) and a document of images in any state:
\* without a src, still loading, loaded or failed; attached or detached.
InitPage ==
    /\ InitCall(1, 1, Flatten(Uniform(1, 1), 1, 1), 0, 0,
                DEFAULT_TOLERANCE_VALUE)
    /\ \E imgs \in [Images -> [state : {"nosrc", "loading", "loaded", "broken"},
                               onload : {<<>>},
                               parent : BOOLEAN,
                               canvases : {0}]] :
           page = [toleranceValue |-> DEFAULT_TOLERANCE_VALUE,
                   images |-> imgs,
                   copies |-> <<>>,
                   calls |-> 0,
                   last |-> "none",
                   before |-> DEFAULT_TOLERANCE_VALUE]

\* Lines 189-210: one call translucifyAll(queryResult, tolerance). The fields
\* last and before keep the kind of the call's argument and the value
\* _toleranceValue had when the call was made.
translucifyAll ==
    /\ page.calls < MaxCalls
    /\ \E q \in Queries, t \in Tolerances \cup {Undefined},
          cache \in [Images -> CacheOutcomes] :
           LET tv == IF t # Undefined THEN t ELSE DEFAULT_TOLERANCE_VALUE
               p == [page EXCEPT !.toleranceValue = tv,
                                 !.calls = @ + 1,
                                 !.last = q.kind,
                                 !.before = page.toleranceValue]
           IN  page' =
                   IF q.kind = "HTMLImageElement"
                   THEN translucifyOneFloodFill(p, q.list[1], tv,
                                                cache[q.list[1]])
                   ELSE IF q.kind = "NodeList"
                   THEN forEach(p, q.list, tv, cache)
                   ELSE IF q.kind = "jQuery"
                   THEN forEach(p, q.list, tv, cache)
                   ELSE p
    /\ UNCHANGED fillVars

\* The source image's request succeeds: its load event runs the handler of
\* line 177 when one is set.
ImageLoads ==
    /\ \E i \in Images, cached \in CacheOutcomes :
           /\ page.images[i].state = "loading"
           /\ LET p == [page EXCEPT !.images[i].state = "loaded"]
              IN  page' =
                      IF p.images[i].onload # <<>>
                      THEN modifyImagePixels(p, i, p.images[i].onload[1],
                                             cached)
                      ELSE p
    /\ UNCHANGED fillVars

\* The source image's request fails: no load event.
ImageFails ==
    /\ \E i \in Images :
           /\ page.images[i].state = "loading"
           /\ page' = [page EXCEPT !.images[i].state = "broken"]
    /\ UNCHANGED fillVars

\* The load event of a CORS copy is delivered: the handler of lines 59-61.
CopyLoads ==
    /\ \E c \in DOMAIN page.copies :
           /\ \/ page.copies[c].state = "loading"
              \/ page.copies[c].state = "loaded" /\ page.copies[c].event
           /\ page' = applyFloodFill([page EXCEPT !.copies[c].state = "loaded",
                                                  !.copies[c].event = FALSE],
                                     c)
    /\ UNCHANGED fillVars

\* The request of a CORS copy fails: no load event.
CopyFails ==
    /\ \E c \in DOMAIN page.copies :
           /\ page.copies[c].state = "loading"
           /\ page' = [page EXCEPT !.copies[c].state = "broken"]
    /\ UNCHANGED fillVars

NextPage ==
    translucifyAll \/ ImageLoads \/ ImageFails \/ CopyLoads \/ CopyFails

SpecPage == InitPage /\ [][NextPage]_vars

\* The pipelines started so far, one per CORS copy, and for each the image
\* it belongs to, the tolerance of the call that asked for it and the
\* tolerances floodFill was passed, one per run of applyFloodFill.
Pipelines == DOMAIN page.copies
Runs(c) == Len(page.copies[c].used)

\* C13: every floodFill of an image's pipeline is passed the tolerance of the
\* translucifyAll call that submitted the image (0.05 when the call gave
\* none), whatever calls came in between.
C13_ToleranceAsAsked ==
    \A c \in Pipelines :
        \A n \in 1 .. Runs(c) : page.copies[c].used[n] = page.copies[c].asked

\* C14: the pipeline of a handle never runs twice, and has run once when the
\* source image and the copy are loaded and no load event is outstanding.
C14_OncePerHandle ==
    \A c \in Pipelines :
        /\ Runs(c) <= 1
        /\ (/\ page.images[page.copies[c].img].state = "loaded"
            /\ page.copies[c].state = "loaded"
            /\ ~page.copies[c].event) => Runs(c) = 1

\* C15: after a call whose first argument is neither an image, a NodeList nor
\* an object with toArray, the module-level tolerance is what it was before
\* the call.
C15_UnsupportedIsNoOp ==
    page.last = "other" => page.toleranceValue = page.before

\* C16: floodFill has run for an image only if the source image and the CORS
\* copy are both loaded, and an image that has not loaded has not been
\* replaced by a canvas.
C16_NoFillBeforeLoad ==
    /\ \A c \in Pipelines :
           Runs(c) > 0 =>
               /\ page.images[page.copies[c].img].state = "loaded"
               /\ page.copies[c].state = "loaded"
    /\ \A i \in Images :
           page.images[i].state # "loaded" => page.images[i].canvases = 0

\* C20: an original image is replaced by at most one canvas, and once it is
\* replaced it has no parent, so a further applyFloodFill inserts nothing.
C20_SingleReplacement ==
    \A i \in Images :
        /\ page.images[i].canvases <= 1
        /\ page.images[i].canvases = 1 => ~page.images[i].parent

\* An image replaced by one canvas for which applyFloodFill has run at least
\* twice, in one pipeline or in two.
C20_Witness ==
    \E i \in Images :
        /\ page.images[i].canvases = 1
        /\ \/ \E c \in Pipelines : page.copies[c].img = i /\ Runs(c) >= 2
           \/ \E c, d \in Pipelines :
                  /\ c # d
                  /\ page.copies[c].img = i /\ page.copies[d].img = i
                  /\ Runs(c) >= 1 /\ Runs(d) >= 1

=============================================================================
